---- MODULE Spec2Model ----
(***************************************************************************)
(* Model of backend/server.py of journey-weather-guide: the route planner  *)
(* calculate_route and the helpers it awaits (geocode_location, get_route, *)
(* generate_timeline_points, reverse_geocode, get_road_conditions,         *)
(* get_weather_forecast).                                                  *)
(*                                                                         *)
(* Python dicts are records whose DOMAIN is the dict's key set, lists are  *)
(* sequences, an exception is a record with an "exc" field.  Times are     *)
(* seconds on the local clock; a datetime is [secs, aware], an ISO string  *)
(* is [secs, tz].  A coordinate pair is kept as lat/lng numbers.           *)
(***************************************************************************)
EXTENDS Integers, Sequences, FiniteSets, TLC

VARIABLES
    pc,                  \* where calculate_route (or a helper under test) stands
    request,             \* the RouteRequest
    now,                 \* datetime.now(): the naive local clock, in seconds
    upstream,            \* how the upstream services answer this request
    source_coords, dest_coords, route_data,
    timeline_points, points_with_weather,
    response,            \* what calculate_route returned, or None
    raised,              \* the exception calculate_route let out, or None
    calls,               \* the upstream calls made so far, in order
    wx,                  \* get_weather_forecast on its own: arguments and outcome
    tf                   \* get_road_conditions on its own: arguments and outcome

vars == <<pc, request, now, upstream, source_coords, dest_coords, route_data,
          timeline_points, points_with_weather, response, raised, calls, wx, tf>>

\* ------------------------------------------------------------------ bounds

\* Longest route, in hours, the routing service returns in Spec.
MaxHours == 3
\* Longest leg geometry (number of vertices) the routing service returns in Spec.
MaxGeom == 4
\* Largest total_distance (metres) drawn in SpecTimeline.
MaxDist == 12
\* Longest geometry drawn in SpecTimeline.
MaxGeomT == 12
\* Longest route, in hours, drawn in SpecTimeline.
MaxHoursT == 20
\* Largest speed (km/h) of the dense range drawn in SpecTraffic.
MaxSpeed == 10
\* Seconds the clock may advance while a request is served.
MaxTicks == 1
\* Largest whole-day distance between now and target_time in SpecWeather.
MaxDays == 15

\* ------------------------------------------------------- program constants

SecondsPerDay == 86400
SecondsPerHour == 3600
HoursPerDay == 24
ShortTrip == 1800
MinIntermediate == 2
MaxIntermediate == 8
MaxForecastDays == 10

None == [none |-> TRUE]

Min(a, b) == IF a <= b THEN a ELSE b
Max(a, b) == IF a >= b THEN a ELSE b

\* Python's int(x) of the float a/b, b > 0: truncation toward zero.  For the
\* products the code forms (n * (i / d) with 3 <= d <= 9) the float result
\* equals the exact quotient's truncation.
IntTrunc(a, b) == IF a >= 0 THEN a \div b ELSE -((-a) \div b)

\* ------------------------------------------------------------- exceptions

Exc(kind, stage) == [exc |-> kind, stage |-> stage]
IsExc(v) == "exc" \in DOMAIN v
\* a list a function returned (a record, so that it can be told from an exception)
Returned(v) == [returned |-> v]
\* fastapi.HTTPException(status_code, detail)
HTTPException(status_code, detail) ==
    [exc |-> "HTTPException", status_code |-> status_code, detail |-> detail]

\* ------------------------------------------------------------------ time

\* datetime.fromisoformat(s.replace('Z', '+00:00')): a string with a 'Z' or
\* an explicit offset parses to an aware datetime, one without to a naive one.
fromisoformat(s) ==
    IF s.tz = "bad" THEN Exc("ValueError", "fromisoformat")
    ELSE [secs |-> s.secs, aware |-> s.tz # ""]

\* datetime.isoformat(): never writes 'Z'; an aware datetime gets its offset.
isoformat(dt) == [secs |-> dt.secs, tz |-> IF dt.aware THEN "+00:00" ELSE ""]

\* dt + timedelta(seconds=s)
plus_seconds(dt, s) == [secs |-> dt.secs + s, aware |-> dt.aware]

\* datetime.hour
hour_of(dt) == (dt.secs \div SecondsPerHour) % HoursPerDay

\* --------------------------------------------------------- geocode_location

\* ", ".join(parts): a string, kept as the parts it is made of
Join(parts) == [joined |-> parts]

\* What the geocoding service knows: a place name and where it is.
Place(text) ==
    [position |-> [lat |-> IF text = "A" THEN 100 ELSE 200,
                   lon |-> IF text = "A" THEN -100 ELSE -200],
     address |-> [freeformAddress |-> Join(<<text, "City">>)]]

GeocodeHit(text) == [http |-> "ok", json |-> [results |-> <<Place(text)>>]]
GeocodeEmpty == [http |-> "ok", json |-> [results |-> <<>>]]
HttpError == [http |-> "error"]

\* geocode_location(address, api_key) given the service's answer resp.
geocode_location(address, resp) ==
    IF resp.http = "error" THEN Exc("HTTPStatusError", "geocode")
    ELSE IF resp.json.results = <<>>
    THEN HTTPException(404, [text |-> "Location not found", address |-> address])
    ELSE LET result == resp.json.results[1]
         IN [lat |-> result.position.lat,
             lng |-> result.position.lon,
             address |-> result.address.freeformAddress]

\* ----------------------------------------------------------------- get_route

\* TOMTOM_TRANSPORT_MODES.get(transport_mode, "car")
TOMTOM_TRANSPORT_MODES(transport_mode) ==
    CASE transport_mode = "driving" -> "car"
      [] transport_mode = "walking" -> "pedestrian"
      [] transport_mode = "cycling" -> "bicycle"
      [] transport_mode = "transit" -> "car"
      [] OTHER -> "car"

\* A leg's polyline of n vertices, vertex k at (k, -k).
Polyline(n) == [k \in 1..n |-> [latitude |-> k, longitude |-> -k]]

RouteSummaryOf(dur, dist) ==
    [travelTimeInSeconds |-> dur, lengthInMeters |-> dist]

\* The routing service's answers: a route with a leg polyline of n vertices,
\* one whose leg has no "points", one with no "legs", and an empty route list.
RouteWithPoints(dur, dist, n) ==
    [http |-> "ok",
     json |-> [routes |-> <<[summary |-> RouteSummaryOf(dur, dist),
                             legs |-> <<[points |-> Polyline(n)]>>]>>]]
RouteLegNoPoints(dur, dist) ==
    [http |-> "ok",
     json |-> [routes |-> <<[summary |-> RouteSummaryOf(dur, dist),
                             legs |-> <<[summary |-> None]>>]>>]]
RouteNoLegs(dur, dist) ==
    [http |-> "ok",
     json |-> [routes |-> <<[summary |-> RouteSummaryOf(dur, dist)]>>]]
RouteNone == [http |-> "ok", json |-> [routes |-> <<>>]]

\* get_route(source_coords, dest_coords, transport_mode, api_key) given the
\* service's answer resp.
get_route(source, dest, transport_mode, resp) ==
    IF resp.http = "error" THEN Exc("HTTPStatusError", "routing")
    ELSE IF resp.json.routes = <<>> THEN Exc("IndexError", "routing")
    ELSE
      LET route == resp.json.routes[1]
          ends == <<(<<source.lat, source.lng>>), (<<dest.lat, dest.lng>>)>>
          route_points ==
            IF "legs" \in DOMAIN route /\ Len(route.legs) > 0
            THEN LET leg == route.legs[1]
                 IN IF "points" \in DOMAIN leg
                    THEN [k \in 1..Len(leg.points) |->
                            <<leg.points[k].latitude, leg.points[k].longitude>>]
                    ELSE ends
            ELSE ends
      IN [total_duration |-> route.summary.travelTimeInSeconds,
          total_distance |-> route.summary.lengthInMeters,
          route_points |-> route_points,
          source_coords |-> source,
          dest_coords |-> dest,
          instructions |-> IF "guidance" \in DOMAIN route
                           THEN route.guidance.instructions ELSE <<>>]

\* ------------------------------------------------------------ reverse_geocode

\* f"Location at {lat:.4f}, {lng:.4f}" (coordinates already on the 1e-4 grid)
CoordinateLabel(lat, lng) == [text |-> "Location at", lat |-> lat, lng |-> lng]

\* a dict key that is present and truthy
Truthy(d, k) == k \in DOMAIN d /\ d[k] # ""

AddressParts(address_data) ==
    (IF Truthy(address_data, "streetName")
        THEN <<address_data.streetName>> ELSE <<>>)
    \o (IF Truthy(address_data, "municipality")
           THEN <<address_data.municipality>>
        ELSE IF Truthy(address_data, "localName")
           THEN <<address_data.localName>> ELSE <<>>)
    \o (IF Truthy(address_data, "countrySubdivision")
           THEN <<address_data.countrySubdivision>> ELSE <<>>)

\* The mutation of reverse_geocode: the except branch returns an empty string.
reverse_geocode_no_fallback(lat, lng, resp) ==
    IF resp.http = "error" THEN Join(<<>>)
    ELSE IF "addresses" \notin DOMAIN resp.json THEN CoordinateLabel(lat, lng)
    ELSE IF resp.json.addresses # <<>>
    THEN LET parts == AddressParts(resp.json.addresses[1].address)
         IN IF parts # <<>> THEN Join(parts) ELSE CoordinateLabel(lat, lng)
    ELSE CoordinateLabel(lat, lng)

\* reverse_geocode(lat, lng, api_key) given the service's answer resp.
reverse_geocode(lat, lng, resp) ==
    IF resp.http = "error" THEN CoordinateLabel(lat, lng)
    ELSE IF "addresses" \notin DOMAIN resp.json THEN CoordinateLabel(lat, lng)
    ELSE IF resp.json.addresses # <<>>
    THEN LET parts == AddressParts(resp.json.addresses[1].address)
         IN IF parts # <<>> THEN Join(parts) ELSE CoordinateLabel(lat, lng)
    ELSE CoordinateLabel(lat, lng)

AddressOf(data) == [http |-> "ok", json |-> [addresses |-> <<[address |-> data]>>]]
AddressFull ==
    AddressOf([streetName |-> "Main St", municipality |-> "Town",
               localName |-> "Local", countrySubdivision |-> "ST"])
AddressLocal == AddressOf([streetName |-> "", localName |-> "Local"])
AddressBare == AddressOf([streetName |-> ""])
AddressNone == [http |-> "ok", json |-> [addresses |-> <<>>]]

\* -------------------------------------------------------- get_road_conditions

RoadConditionsDefault ==
    [condition |-> "Unknown", current_speed |-> 0, free_flow_speed |-> 0,
     confidence |-> 0, color |-> "gray"]

\* dict.get(key, default)
Get(d, k, default) == IF k \in DOMAIN d THEN d[k] ELSE default

\* speed_ratio >= 0.8 and speed_ratio >= 0.5 for current / free_flow with
\* free_flow > 0, as exact comparisons of the quotient.
\* The mutation of RatioAtLeastGood: speed_ratio > 0.8.
RatioAboveGood(current_speed, free_flow_speed) ==
    10 * current_speed > 8 * free_flow_speed
RatioAtLeastGood(current_speed, free_flow_speed) ==
    10 * current_speed >= 8 * free_flow_speed
RatioAtLeastModerate(current_speed, free_flow_speed) ==
    10 * current_speed >= 5 * free_flow_speed

\* get_road_conditions(lat, lng, api_key) given the service's answer resp.
get_road_conditions(resp) ==
    IF resp.http = "error" THEN RoadConditionsDefault
    ELSE
      LET flow_data == Get(resp.json, "flowSegmentData", <<>>)
          current_speed == Get(flow_data, "currentSpeed", 0)
          free_flow_speed == Get(flow_data, "freeFlowSpeed", current_speed)
          level ==
            IF free_flow_speed > 0
            THEN IF RatioAtLeastGood(current_speed, free_flow_speed)
                    THEN <<"Good", "green">>
                 ELSE IF RatioAtLeastModerate(current_speed, free_flow_speed)
                    THEN <<"Moderate", "yellow">>
                 ELSE <<"Congested", "red">>
            ELSE <<"Unknown", "gray">>
      IN [condition |-> level[1],
          current_speed |-> current_speed,
          free_flow_speed |-> free_flow_speed,
          confidence |-> Get(flow_data, "confidence", 0),
          color |-> level[2]]

FlowOf(cs, ffs) ==
    [http |-> "ok",
     json |-> [flowSegmentData |->
                 [currentSpeed |-> cs, freeFlowSpeed |-> ffs, confidence |-> 1]]]

\* ---------------------------------------------------- generate_timeline_points

\* num_intermediate = min(8, max(2, total_duration // 3600))
NumIntermediate(total_duration) ==
    Min(MaxIntermediate, Max(MinIntermediate, total_duration \div SecondsPerHour))

\* The mutation of LoopPasses: the loop starts at 0, range(0, num_intermediate + 1).
LoopPassesFromZero(rd) ==
    IF Len(rd.route_points) > 2 /\ rd.total_duration > ShortTrip
    THEN [k \in 1..(NumIntermediate(rd.total_duration) + 1) |-> k - 1]
    ELSE <<>>

\* The values of i the loop runs through, in order: range(1, num_intermediate + 1)
\* under the if, none when the if is not taken.
LoopPasses(rd) ==
    IF Len(rd.route_points) > 2 /\ rd.total_duration > ShortTrip
    THEN [k \in 1..NumIntermediate(rd.total_duration) |-> k]
    ELSE <<>>

\* the set of those values
LoopRange(rd) == {LoopPasses(rd)[k] : k \in 1..Len(LoopPasses(rd))}

\* The mutation of PointIndex: progress = i / n over the whole length.
PointIndexOverLength(i, n, len) == IntTrunc(i * len, n)

\* point_index = int(progress * (len(route_points) - 1)), progress = i / (n + 1)
PointIndex(i, n, len) == IntTrunc(i * (len - 1), n + 1)

\* The mutation of TimeOffset: round() in place of int().
TimeOffsetRounded(i, n, total_duration) ==
    IntTrunc(2 * total_duration * i + (n + 1), 2 * (n + 1))

\* time_offset = int(total_duration * progress)
TimeOffset(i, n, total_duration) == IntTrunc(total_duration * i, n + 1)

\* distance_from_source = int(total_distance * progress)
DistanceFromSource(i, n, total_distance) == IntTrunc(total_distance * i, n + 1)

\* distance_to_destination of a checkpoint
DistanceToDestination(total_distance, distance_from_source) ==
    total_distance - distance_from_source

StartPoint(rd, start_time) ==
    [lat |-> rd.source_coords.lat,
     lng |-> rd.source_coords.lng,
     address |-> rd.source_coords.address,
     estimated_time |-> isoformat(start_time),
     point_type |-> "start",
     distance_from_source |-> 0,
     distance_to_destination |-> rd.total_distance]

\* The i-th pass of the loop body; addr and road are the answers of the
\* reverse-geocoding and traffic-flow services to this pass's calls.
CheckpointPoint(rd, start_time, i, n, addr, road) ==
    LET point_index == PointIndex(i, n, Len(rd.route_points))
        lat == rd.route_points[point_index + 1][1]
        lng == rd.route_points[point_index + 1][2]
        time_offset == TimeOffset(i, n, rd.total_duration)
        distance_from_source == DistanceFromSource(i, n, rd.total_distance)
        estimated_time == plus_seconds(start_time, time_offset)
    IN [lat |-> lat,
        lng |-> lng,
        address |-> reverse_geocode(lat, lng, addr),
        estimated_time |-> isoformat(estimated_time),
        point_type |-> "checkpoint",
        distance_from_source |-> distance_from_source,
        distance_to_destination |->
            DistanceToDestination(rd.total_distance, distance_from_source),
        road_conditions |-> get_road_conditions(road)]

\* The mutation of EndPoint: distance_from_source is taken from total_duration.
EndPointWrongTotal(rd, start_time) ==
    [lat |-> rd.dest_coords.lat,
     lng |-> rd.dest_coords.lng,
     address |-> rd.dest_coords.address,
     estimated_time |-> isoformat(plus_seconds(start_time, rd.total_duration)),
     point_type |-> "destination",
     distance_from_source |-> rd.total_duration,
     distance_to_destination |-> 0]

EndPoint(rd, start_time) ==
    [lat |-> rd.dest_coords.lat,
     lng |-> rd.dest_coords.lng,
     address |-> rd.dest_coords.address,
     estimated_time |-> isoformat(plus_seconds(start_time, rd.total_duration)),
     point_type |-> "destination",
     distance_from_source |-> rd.total_distance,
     distance_to_destination |-> 0]

\* The passes of the loop whose "if point_index < len(route_points)" is taken.
PassesTaken(rd) ==
    LET n == NumIntermediate(rd.total_duration)
    IN SelectSeq(LoopPasses(rd),
                 LAMBDA i: PointIndex(i, n, Len(rd.route_points))
                              < Len(rd.route_points))

\* generate_timeline_points(route_data, start_time_str, transport_mode, api_key);
\* addr[i] and road[i] are the services' answers in the loop's i-th pass.
generate_timeline_points(rd, start_time_str, addr, road) ==
    LET start_time == fromisoformat(start_time_str)
        n == NumIntermediate(rd.total_duration)
        taken == PassesTaken(rd)
    IN IF IsExc(start_time) THEN start_time
       ELSE Returned(
            <<StartPoint(rd, start_time)>>
            \o [k \in 1..Len(taken) |->
                  CheckpointPoint(rd, start_time, taken[k], n,
                                  addr[taken[k]], road[taken[k]])]
            \o <<EndPoint(rd, start_time)>>)

\* --------------------------------------------------------- get_weather_forecast

\* (target_time - now).days for target_time > now
DaysBetween(target_secs, now_secs) == (target_secs - now_secs) \div SecondsPerDay

\* days_ahead = max(1, (target_time - now).days + 1)
DaysAhead(target_secs, now_secs) == Max(1, DaysBetween(target_secs, now_secs) + 1)

\* target_time <= now
IsCurrent(target_secs, now_secs) == target_secs <= now_secs

\* The url and params the function settles on, or the TypeError of comparing
\* an aware target_time with the naive datetime.now().
WeatherQuery(target_time, now_secs) ==
    IF target_time.aware THEN Exc("TypeError", "weather")
    ELSE IF IsCurrent(target_time.secs, now_secs)
    THEN [url |-> "current.json"]
    ELSE [url |-> "forecast.json",
          days |-> Min(DaysAhead(target_time.secs, now_secs), MaxForecastDays)]

\* abs(int(x["time"].split(" ")[1].split(":")[0]) - target_hour)
HourDistance(x, target_hour) ==
    LET h == x.time.hour IN IF h >= target_hour THEN h - target_hour ELSE target_hour - h

\* min(hourly_data, key=...): the first entry whose key is minimal
ClosestHour(hourly_data, target_hour) ==
    LET k == CHOOSE k \in 1..Len(hourly_data) :
                /\ \A j \in 1..Len(hourly_data) :
                      HourDistance(hourly_data[k], target_hour)
                          <= HourDistance(hourly_data[j], target_hour)
                /\ \A j \in 1..(k - 1) :
                      HourDistance(hourly_data[j], target_hour)
                          > HourDistance(hourly_data[k], target_hour)
    IN hourly_data[k]

\* Whether the response of the data is "current"-shaped
HasCurrent(data) == "current" \in DOMAIN data

\* The dict built from a successful response's json.
WeatherSample(target_time, data) ==
    IF HasCurrent(data)
    THEN LET weather == data.current
         IN [temperature |-> weather.temp_c,
             condition |-> weather.condition.text,
             icon |-> weather.condition.icon,
             humidity |-> weather.humidity,
             wind_speed |-> weather.wind_kph,
             visibility |-> weather.vis_km,
             forecast_type |-> "current"]
    ELSE IF "forecast" \notin DOMAIN data THEN Exc("KeyError", "weather")
    ELSE IF data.forecast.forecastday = <<>> THEN Exc("IndexError", "weather")
    ELSE
      LET target_hour == hour_of(target_time)
          forecast_day == data.forecast.forecastday[1]
      IN IF "hour" \in DOMAIN forecast_day /\ forecast_day.hour = <<>>
         THEN Exc("ValueError", "weather")
         ELSE
           LET weather == IF "hour" \in DOMAIN forecast_day
                          THEN ClosestHour(forecast_day.hour, target_hour)
                          ELSE forecast_day.day
           IN [temperature |-> Get(weather, "temp_c", Get(weather, "avgtemp_c", None)),
               condition |-> weather.condition.text,
               icon |-> weather.condition.icon,
               humidity |-> Get(weather, "humidity", Get(weather, "avghumidity", None)),
               wind_speed |-> Get(weather, "wind_kph", Get(weather, "maxwind_kph", None)),
               visibility |-> Get(weather, "vis_km", Get(weather, "avgvis_km", None)),
               forecast_type |-> "forecast"]

\* get_weather_forecast(lat, lng, target_time_str, api_key) at clock now_secs;
\* api.current and api.forecast are the weather service's answers to the two
\* queries.  Gives the query issued (None when none was) and the result.
get_weather_forecast(target_time_str, now_secs, api) ==
    LET target_time == fromisoformat(target_time_str)
    IN IF IsExc(target_time) THEN [query |-> None, result |-> target_time]
       ELSE
         LET q == WeatherQuery(target_time, now_secs)
         IN IF IsExc(q) THEN [query |-> None, result |-> q]
            ELSE
              LET resp == IF q.url = "current.json" THEN api.current ELSE api.forecast
              IN [query |-> q,
                  result |-> IF resp.http = "error"
                             THEN Exc("HTTPStatusError", "weather")
                             ELSE WeatherSample(target_time, resp.json)]

\* An observation of the weather service; every field carries the tag w, which
\* says where in the response the observation stood.
Observation(w) ==
    [temp_c |-> w, condition |-> [text |-> w, icon |-> w],
     humidity |-> w, wind_kph |-> w, vis_km |-> w]
CurrentTag == [src |-> "current"]
DayTag == [src |-> "day"]
HourTag(k, h) == [src |-> "hour", pos |-> k, hour |-> h]
\* The k-th entry of a forecast day's "hour" list, for hour h of the day.
HourEntry(k, h) ==
    [time |-> [date |-> "day1", hour |-> h, minute |-> 0]] @@ Observation(HourTag(k, h))
\* A forecast day's "day" aggregate.
DayAggregate ==
    [avgtemp_c |-> DayTag, condition |-> [text |-> DayTag, icon |-> DayTag],
     avghumidity |-> DayTag, maxwind_kph |-> DayTag, avgvis_km |-> DayTag]

\* hours: the hours of the first forecast day's "hour" list, in order
ForecastDayOf(hours) ==
    [day |-> DayAggregate, hour |-> [k \in 1..Len(hours) |-> HourEntry(k, hours[k])]]

\* The answers of the weather service: current.json's (only "current"),
\* forecast.json's as the service documents it ("current" and "forecast"),
\* a forecast with an hour list only, and one with day aggregates only.
WxCurrent == [http |-> "ok", json |-> [current |-> Observation(CurrentTag)]]
WxForecastFull(hours) ==
    [http |-> "ok",
     json |-> [current |-> Observation(CurrentTag),
               forecast |-> [forecastday |-> <<ForecastDayOf(hours)>>]]]
WxForecastHourly(hours) ==
    [http |-> "ok", json |-> [forecast |-> [forecastday |-> <<ForecastDayOf(hours)>>]]]
WxForecastDaily ==
    [http |-> "ok", json |-> [forecast |-> [forecastday |-> <<[day |-> DayAggregate]>>]]]

\* ------------------------------------------------------------ pydantic models

\* A pydantic BaseModel built from keyword arguments: the declared fields are
\* kept, a keyword that is no declared field is ignored.
BaseModel(fields, kwargs) == [f \in fields \cap DOMAIN kwargs |-> kwargs[f]]

LocationPointFields == {"lat", "lng", "address", "estimated_time", "weather"}
RouteResponseFields == {"points", "total_duration", "total_distance", "transport_mode"}

\* class LocationPoint(BaseModel)
LocationPoint(kwargs) == BaseModel(LocationPointFields, kwargs)
\* class RouteResponse(BaseModel)
RouteResponse(kwargs) == BaseModel(RouteResponseFields, kwargs)

\* ------------------------------------------------------------ calculate_route

\* the clock when the request arrives
Now0 == 10 * SecondsPerHour

\* start_time strings of a request: an hour ago, now and in two days without
\* a zone; now with 'Z'; and one that is no ISO time.
StartTimes ==
    {[secs |-> Now0 + off, tz |-> ""] : off \in {-SecondsPerHour, 0, 2 * SecondsPerDay}}
    \cup {[secs |-> Now0, tz |-> "Z"], [secs |-> 0, tz |-> "bad"]}

Requests ==
    [source : {"A"}, destination : {"B"}, transport_mode : {"driving", "transit"},
     start_time : StartTimes]

Hours24 == [k \in 1..HoursPerDay |-> k - 1]

\* How the weather service shapes a forecast.json answer.
ForecastAnswer(format) ==
    CASE format = "full" -> WxForecastFull(Hours24)
      [] format = "hourly" -> WxForecastHourly(Hours24)
      [] format = "daily" -> WxForecastDaily
WeatherFormats == {"full", "hourly"}

\* The weather service's behaviour at one call: down, or answering.
WeatherApis(format) ==
    {[current |-> HttpError, forecast |-> HttpError],
     [current |-> WxCurrent, forecast |-> ForecastAnswer(format)]}

GeocodeUpstream(text) == {HttpError, GeocodeEmpty, GeocodeHit(text)}

SpecDurations == {ShortTrip} \cup {h * SecondsPerHour : h \in 1..MaxHours}
SpecDistances == {1000}
RouteUpstream ==
    {HttpError, RouteNone}
    \cup {RouteNoLegs(d, m) : d \in SpecDurations, m \in SpecDistances}
    \cup {RouteWithPoints(d, m, n) :
            d \in SpecDurations, m \in SpecDistances, n \in {0, MaxGeom}}
AddrUpstream == {HttpError, AddressFull}
FlowUpstream == {HttpError, FlowOf(9, 10)}

\* except Exception as e: raise HTTPException(status_code=400, detail=str(e))
CalculateRouteExcept(e) == HTTPException(400, e)

\* The mutation of WeatherRaises: a handler swallows the failure and the loop goes on.
WeatherSwallowed(weather_data) == FALSE

\* Whether "weather_data = await get_weather_forecast(...)" raises instead of
\* returning: the call stands in the try block with no handler of its own.
WeatherRaises(weather_data) == IsExc(weather_data)

\* calculate_route ends by raising e out of its try block.
Fail(e) ==
    /\ raised' = CalculateRouteExcept(e)
    /\ response' = None
    /\ pc' = "done"

Call(svc, arg, resp) == [svc |-> svc, arg |-> arg, ok |-> resp.http = "ok"]

\* Step 1, first await: source_coords = await geocode_location(request.source, ...)
GeocodeSource ==
    /\ pc = "geocode_source"
    /\ \E resp \in GeocodeUpstream(request.source) :
         LET r == geocode_location(request.source, resp)
         IN /\ calls' = Append(calls, Call("geocode", request.source, resp))
            /\ IF IsExc(r)
               THEN Fail(r) /\ UNCHANGED source_coords
               ELSE /\ source_coords' = r
                    /\ pc' = "geocode_dest"
                    /\ UNCHANGED <<raised, response>>
    /\ UNCHANGED <<request, now, upstream, dest_coords, route_data, timeline_points,
                   points_with_weather, wx, tf>>

\* Step 1, second await: dest_coords = await geocode_location(request.destination, ...)
GeocodeDest ==
    /\ pc = "geocode_dest"
    /\ \E resp \in GeocodeUpstream(request.destination) :
         LET r == geocode_location(request.destination, resp)
         IN /\ calls' = Append(calls, Call("geocode", request.destination, resp))
            /\ IF IsExc(r)
               THEN Fail(r) /\ UNCHANGED dest_coords
               ELSE /\ dest_coords' = r
                    /\ pc' = "get_route"
                    /\ UNCHANGED <<raised, response>>
    /\ UNCHANGED <<request, now, upstream, source_coords, route_data, timeline_points,
                   points_with_weather, wx, tf>>

\* Step 2: route_data = await get_route(...)
GetRoute ==
    /\ pc = "get_route"
    /\ \E resp \in RouteUpstream :
         LET r == get_route(source_coords, dest_coords, request.transport_mode, resp)
         IN /\ calls' = Append(calls,
                    Call("routing", TOMTOM_TRANSPORT_MODES(request.transport_mode), resp))
            /\ IF IsExc(r)
               THEN Fail(r) /\ UNCHANGED route_data
               ELSE /\ route_data' = r
                    /\ pc' = "timeline"
                    /\ UNCHANGED <<raised, response>>
    /\ UNCHANGED <<request, now, upstream, source_coords, dest_coords, timeline_points,
                   points_with_weather, wx, tf>>

\* The calls of the loop's passes, in the order made: reverse geocoding, then
\* traffic flow, pass by pass.
RECURSIVE TimelineCalls(_, _, _)
TimelineCalls(taken, addr, road) ==
    IF taken = <<>> THEN <<>>
    ELSE <<Call("reverse", Head(taken), addr[Head(taken)]),
           Call("traffic", Head(taken), road[Head(taken)])>>
         \o TimelineCalls(Tail(taken), addr, road)

\* Step 3: timeline_points = await generate_timeline_points(...)
GenerateTimeline ==
    /\ pc = "timeline"
    /\ \E addr \in [LoopRange(route_data) -> AddrUpstream],
          road \in [LoopRange(route_data) -> FlowUpstream] :
         LET r == generate_timeline_points(route_data, request.start_time, addr, road)
         IN IF IsExc(r)
            THEN Fail(r) /\ UNCHANGED <<timeline_points, calls>>
            ELSE /\ timeline_points' = r.returned
                 /\ calls' = calls \o TimelineCalls(PassesTaken(route_data), addr, road)
                 /\ pc' = "weather"
                 /\ UNCHANGED <<raised, response>>
    /\ UNCHANGED <<request, now, upstream, source_coords, dest_coords, route_data,
                   points_with_weather, wx, tf>>

\* return RouteResponse(...)
Return(points) ==
    RouteResponse([points |-> points,
                   total_duration |-> route_data.total_duration,
                   total_distance |-> route_data.total_distance,
                   transport_mode |-> request.transport_mode,
                   route_geometry |-> route_data.route_points])

\* Step 4, one pass of "for point in timeline_points", and the return after
\* the last one.
WeatherStep ==
    /\ pc = "weather"
    /\ LET point == timeline_points[Len(points_with_weather) + 1]
       IN \E api \in WeatherApis(upstream.weather) :
            LET w == get_weather_forecast(point.estimated_time, now, api)
                weather_data == w.result
                appended ==
                  Append(points_with_weather,
                         LocationPoint([lat |-> point.lat,
                                        lng |-> point.lng,
                                        address |-> point.address,
                                        estimated_time |-> point.estimated_time,
                                        weather |-> weather_data]))
            IN /\ calls' = IF w.query = None THEN calls
                           ELSE Append(calls,
                                  [svc |-> "weather", arg |-> w.query,
                                   ok |-> ~(IsExc(weather_data)
                                            /\ weather_data.exc = "HTTPStatusError")])
               /\ IF WeatherRaises(weather_data)
                  THEN Fail(weather_data) /\ UNCHANGED points_with_weather
                  ELSE /\ points_with_weather' = appended
                       /\ raised' = raised
                       /\ IF Len(appended) = Len(timeline_points)
                          THEN response' = Return(appended) /\ pc' = "done"
                          ELSE response' = response /\ pc' = "weather"
    /\ UNCHANGED <<request, now, upstream, source_coords, dest_coords, route_data,
                   timeline_points, wx, tf>>

\* The wall clock moves on while the request is served; only
\* get_weather_forecast reads it.
Tick ==
    /\ pc \in {"weather", "wx_call"}
    /\ now < Now0 + MaxTicks
    /\ now' = now + 1
    /\ UNCHANGED <<pc, request, upstream, source_coords, dest_coords, route_data,
                   timeline_points, points_with_weather, response, raised, calls, wx, tf>>

Init ==
    /\ pc = "geocode_source"
    /\ request \in Requests
    /\ now = Now0
    /\ upstream \in [weather : WeatherFormats]
    /\ source_coords = None
    /\ dest_coords = None
    /\ route_data = None
    /\ timeline_points = <<>>
    /\ points_with_weather = <<>>
    /\ response = None
    /\ raised = None
    /\ calls = <<>>
    /\ wx = None
    /\ tf = None

Next ==
    \/ GeocodeSource
    \/ GeocodeDest
    \/ GetRoute
    \/ GenerateTimeline
    \/ WeatherStep
    \/ Tick

Spec == Init /\ [][Next]_vars

\* ------------------------------------------- generate_timeline_points on its own

TimelineDurations ==
    {ShortTrip + d : d \in {-1, 0, 1}}
    \cup {h * SecondsPerHour + d : h \in 0..MaxHoursT, d \in {-1, 0, 1}}
TimelineDistances == 0..MaxDist \cup {100000}
TimelineGeometries == 0..MaxGeomT \cup {100}
TimelineRoutes ==
    {RouteNoLegs(d, m) : d \in TimelineDurations, m \in TimelineDistances}
    \cup {RouteWithPoints(d, m, n) :
            d \in TimelineDurations, m \in TimelineDistances, n \in TimelineGeometries}
AddrUpstreamT == {HttpError, AddressFull, AddressLocal, AddressBare, AddressNone}
FlowUpstreamT == {HttpError, FlowOf(9, 10)}

InitTimeline ==
    /\ pc = "timeline_call"
    /\ request = [source |-> "A", destination |-> "B", transport_mode |-> "driving",
                  start_time |-> [secs |-> Now0, tz |-> ""]]
    /\ now = Now0
    /\ upstream = [weather |-> "full"]
    /\ source_coords = geocode_location("A", GeocodeHit("A"))
    /\ dest_coords = geocode_location("B", GeocodeHit("B"))
    /\ \E resp \in TimelineRoutes :
         route_data = get_route(source_coords, dest_coords, "driving", resp)
    /\ timeline_points = <<>>
    /\ points_with_weather = <<>>
    /\ response = None
    /\ raised = None
    /\ calls = <<>>
    /\ wx = None
    /\ tf = None

\* One call of generate_timeline_points; the two services answer every pass
\* of the loop alike.
TimelineCall ==
    /\ pc = "timeline_call"
    /\ \E a \in AddrUpstreamT, r \in FlowUpstreamT :
         LET addr == [i \in LoopRange(route_data) |-> a]
             road == [i \in LoopRange(route_data) |-> r]
         IN /\ timeline_points' =
                  generate_timeline_points(route_data, request.start_time,
                                           addr, road).returned
            /\ calls' = TimelineCalls(PassesTaken(route_data), addr, road)
    /\ pc' = "timeline_done"
    /\ UNCHANGED <<request, now, upstream, source_coords, dest_coords, route_data,
                   points_with_weather, response, raised, wx, tf>>

NextTimeline == TimelineCall

SpecTimeline == InitTimeline /\ [][NextTimeline]_vars

\* ----------------------------------------------- get_weather_forecast on its own

\* target_time strings: a day back to MaxDays days ahead of the clock, to the
\* second around the whole day and at other hours of the day.
WxOffsets ==
    {d * SecondsPerDay + r :
        d \in -1..MaxDays, r \in {-1, 0, 1, 2, 3 * SecondsPerHour, 13 * SecondsPerHour}}
WxTargets ==
    {[secs |-> Now0 + off, tz |-> z] : off \in WxOffsets, z \in {"", "Z", "+00:00"}}
    \cup {[secs |-> 0, tz |-> "bad"]}
WxBare == [http |-> "ok", json |-> [location |-> None]]
WxAnswersCurrent == {HttpError, WxCurrent, WxBare}
WxAnswersForecast ==
    {HttpError, WxForecastFull(Hours24), WxForecastHourly(Hours24),
     WxForecastHourly(<<18, 6, 12>>), WxForecastHourly(<<18, 12, 6, 0>>),
     WxForecastHourly(<<>>), WxForecastDaily, WxBare}

InitWeather ==
    /\ pc = "wx_call"
    /\ wx \in [target_time_str : WxTargets,
                api : [current : WxAnswersCurrent, forecast : WxAnswersForecast],
                out : {None}]
    /\ now = Now0
    /\ request = None
    /\ upstream = None
    /\ source_coords = None
    /\ dest_coords = None
    /\ route_data = None
    /\ timeline_points = <<>>
    /\ points_with_weather = <<>>
    /\ response = None
    /\ raised = None
    /\ calls = <<>>
    /\ tf = None

\* One call of get_weather_forecast.
WeatherCall ==
    /\ pc = "wx_call"
    /\ wx' = [wx EXCEPT !.out = get_weather_forecast(wx.target_time_str, now, wx.api)]
    /\ pc' = "wx_done"
    /\ UNCHANGED <<request, now, upstream, source_coords, dest_coords, route_data,
                   timeline_points, points_with_weather, response, raised, calls, tf>>

NextWeather == WeatherCall \/ Tick

SpecWeather == InitWeather /\ [][NextWeather]_vars

\* ------------------------------------------------ get_road_conditions on its own

Speeds == 0..MaxSpeed \cup {30, 60, 90, 100}
FlowAnswers ==
    {HttpError, [http |-> "ok", json |-> [other |-> None]]}
    \cup {FlowOf(c, f) : c \in Speeds, f \in Speeds}
    \cup {[http |-> "ok", json |-> [flowSegmentData |-> [currentSpeed |-> c]]] :
            c \in Speeds}

InitTraffic ==
    /\ pc = "tf_call"
    /\ tf \in [resp : FlowAnswers, out : {None}]
    /\ now = Now0
    /\ request = None
    /\ upstream = None
    /\ source_coords = None
    /\ dest_coords = None
    /\ route_data = None
    /\ timeline_points = <<>>
    /\ points_with_weather = <<>>
    /\ response = None
    /\ raised = None
    /\ calls = <<>>
    /\ wx = None

\* One call of get_road_conditions.
TrafficCall ==
    /\ pc = "tf_call"
    /\ tf' = [tf EXCEPT !.out = get_road_conditions(tf.resp)]
    /\ pc' = "tf_done"
    /\ UNCHANGED <<request, now, upstream, source_coords, dest_coords, route_data,
                   timeline_points, points_with_weather, response, raised, calls, wx>>

NextTraffic == TrafficCall

SpecTraffic == InitTraffic /\ [][NextTraffic]_vars

\* ======================================================================
\* Properties
\* ======================================================================

\* the calls made to one service, in order
CallsTo(svc) == SelectSeq(calls, LAMBDA c : c.svc = svc)
SomeCallFailed(svc) == \E k \in 1..Len(calls) : calls[k].svc = svc /\ ~calls[k].ok
\* the exception calculate_route's handler caught
Cause == raised.detail
\* get_weather_forecast raised (at the upstream call, before it or after it)
WeatherFailure ==
    raised # None /\ "stage" \in DOMAIN Cause /\ Cause.stage \in {"weather", "fromisoformat"}
        /\ pc = "done" /\ Len(timeline_points) > 0

\* C1: when get_weather_forecast fails for a timeline point, calculate_route
\* fails as a whole: it raises (HTTP 400) and returns no response, whatever
\* number of points had their weather resolved before; and a response that is
\* returned carries every timeline point and saw no weather call fail.
C1_WeatherFailureFailsRequest ==
    /\ (SomeCallFailed("weather") \/ WeatherFailure) =>
          /\ pc = "done"
          /\ response = None
          /\ raised # None /\ raised.exc = "HTTPException" /\ raised.status_code = 400
    /\ response # None =>
          /\ ~SomeCallFailed("weather")
          /\ Len(response.points) = Len(timeline_points)
          /\ \A k \in 1..Len(response.points) : ~IsExc(response.points[k].weather)

\* C1 witness: the weather call of a later point fails after earlier points
\* were resolved, with every geocoding, routing, address and traffic call good.
C1_Witness ==
    /\ pc = "done"
    /\ SomeCallFailed("weather")
    /\ Len(points_with_weather) >= 2
    /\ Len(timeline_points) > Len(points_with_weather)
    /\ \A k \in 1..Len(calls) : calls[k].svc # "weather" => calls[k].ok
    /\ response = None /\ raised # None

\* the timeline the same route gives when no address or traffic call fails
TimelineWithoutFailure ==
    generate_timeline_points(route_data, request.start_time,
                             [i \in LoopRange(route_data) |-> AddressFull],
                             [i \in LoopRange(route_data) |-> FlowOf(9, 10)]).returned

\* C2: a failed reverse-geocoding or traffic-flow call never aborts the
\* request: once such a call has failed, calculate_route can only fail at a
\* weather lookup, and the response it returns has the points of the
\* failure-free run in the same order; the checkpoint of a failed traffic call
\* has the documented default sample, that of a failed address call the
\* coordinate label.
C2_AddressTrafficDegrade ==
    (pc = "done" /\ (SomeCallFailed("reverse") \/ SomeCallFailed("traffic"))) =>
      /\ raised # None => (Cause.stage = "weather" /\ response = None)
      /\ raised = None =>
           /\ response # None
           /\ Len(response.points) = Len(TimelineWithoutFailure)
           /\ \A k \in 1..Len(response.points) :
                 /\ response.points[k].lat = TimelineWithoutFailure[k].lat
                 /\ response.points[k].lng = TimelineWithoutFailure[k].lng
                 /\ response.points[k].estimated_time
                      = TimelineWithoutFailure[k].estimated_time
           /\ \A j \in 1..Len(CallsTo("traffic")) :
                 ~CallsTo("traffic")[j].ok =>
                    timeline_points[j + 1].road_conditions
                      = [condition |-> "Unknown", current_speed |-> 0,
                         free_flow_speed |-> 0, confidence |-> 0, color |-> "gray"]
           /\ \A j \in 1..Len(CallsTo("reverse")) :
                 ~CallsTo("reverse")[j].ok =>
                    /\ timeline_points[j + 1].address
                         = [text |-> "Location at", lat |-> timeline_points[j + 1].lat,
                            lng |-> timeline_points[j + 1].lng]
                    /\ response.points[j + 1].address = timeline_points[j + 1].address

\* C2 witness: a request that succeeded although one checkpoint's traffic call
\* and another checkpoint's address call failed.
C2_Witness ==
    /\ pc = "done" /\ response # None
    /\ Len(response.points) >= 4
    /\ ~CallsTo("traffic")[1].ok /\ CallsTo("reverse")[1].ok
    /\ ~CallsTo("reverse")[2].ok /\ CallsTo("traffic")[2].ok

\* C3: every point of every timeline generate_timeline_points produces has
\* distance_from_source + distance_to_destination = total_distance.
C3_DistancesSumToTotal ==
    \A k \in 1..Len(timeline_points) :
        timeline_points[k].distance_from_source
          + timeline_points[k].distance_to_destination = route_data.total_distance

\* C3 witness: a timeline with checkpoints whose truncated distances are not
\* multiples of an even share of the total.
C3_Witness ==
    /\ pc = "timeline_done"
    /\ Len(timeline_points) = 5
    /\ route_data.total_distance = 7
    /\ timeline_points[2].distance_from_source = 1
    /\ timeline_points[2].distance_to_destination = 6
    /\ timeline_points[4].distance_from_source = 5

\* C4: in a returned response every point carries distance_from_source and
\* distance_to_destination, and exactly the checkpoints carry a road_conditions
\* sample with the fields condition, current_speed, free_flow_speed and color.
C4_ResponsePointsCarryDistancesAndTraffic ==
    (pc = "done" /\ response # None) =>
      \A k \in 1..Len(response.points) :
        LET p == response.points[k]
        IN /\ "distance_from_source" \in DOMAIN p
           /\ "distance_to_destination" \in DOMAIN p
           /\ ("road_conditions" \in DOMAIN p)
                 <=> (timeline_points[k].point_type = "checkpoint")
           /\ "road_conditions" \in DOMAIN p =>
                 {"condition", "current_speed", "free_flow_speed", "color"}
                    \subseteq DOMAIN p.road_conditions

\* C5: a returned response contains route_geometry, the non-empty list of
\* route coordinates of the routing step, beside total_duration,
\* total_distance and transport_mode.
C5_ResponseCarriesRouteGeometry ==
    (pc = "done" /\ response # None) =>
      /\ {"total_duration", "total_distance", "transport_mode"} \subseteq DOMAIN response
      /\ "route_geometry" \in DOMAIN response
      /\ response.route_geometry = route_data.route_points
      /\ response.route_geometry # <<>>

\* the checkpoints of the timeline
Checkpoints == SelectSeq(timeline_points, LAMBDA p : p.point_type = "checkpoint")

\* C6: generate_timeline_points produces no checkpoint when total_duration
\* <= 1800 or the geometry has at most two vertices, and otherwise exactly
\* min(8, max(2, total_duration div 3600)) of them: no pass of the loop is
\* skipped, and the timeline has that many points plus two.
C6_CheckpointCount ==
    pc = "timeline_done" =>
      LET dur == route_data.total_duration
          len == Len(route_data.route_points)
          expected == IF dur <= 1800 \/ len <= 2 THEN 0
                      ELSE Min(8, Max(2, dur \div 3600))
      IN /\ Len(Checkpoints) = expected
         /\ Len(timeline_points) = expected + 2
         /\ Len(CallsTo("reverse")) = expected
         /\ dur = 1800 => Len(Checkpoints) = 0
         /\ (dur = 5 * 3600 /\ len >= 3) => Len(Checkpoints) = 5
         /\ (dur = 20 * 3600 /\ len >= 3) => Len(Checkpoints) = 8

\* C6 witness: a 20-hour route over the shortest geometry that is sampled
\* gives eight checkpoints.
C6_Witness ==
    /\ pc = "timeline_done"
    /\ route_data.total_duration = 20 * 3600
    /\ Len(route_data.route_points) = 3
    /\ Len(Checkpoints) = 8
    /\ Len(timeline_points) = 10

\* C7: a timeline starts with its only start point and ends with its only
\* destination point, all points between are checkpoints, made by passes whose
\* progress i/(n+1) is strictly increasing and strictly between 0 and 1; and
\* a returned response lists the points in the timeline's order.
C7_TimelineOrder ==
    timeline_points # <<>> =>
      LET len == Len(timeline_points)
          passes == CallsTo("reverse")
          d == Min(8, Max(2, route_data.total_duration \div 3600)) + 1
      IN /\ len >= 2
         /\ timeline_points[1].point_type = "start"
         /\ timeline_points[len].point_type = "destination"
         /\ \A k \in 2..(len - 1) : timeline_points[k].point_type = "checkpoint"
         /\ Len(passes) = len - 2
         /\ \A j \in 1..Len(passes) : 0 < passes[j].arg /\ passes[j].arg < d
         /\ \A j \in 1..(Len(passes) - 1) : passes[j].arg < passes[j + 1].arg
         /\ response # None =>
              /\ Len(response.points) = len
              /\ \A k \in 1..len :
                    /\ response.points[k].lat = timeline_points[k].lat
                    /\ response.points[k].lng = timeline_points[k].lng
                    /\ response.points[k].address = timeline_points[k].address
                    /\ response.points[k].estimated_time
                         = timeline_points[k].estimated_time

\* C7 witness: a returned response of a timeline with three checkpoints.
C7_Witness ==
    /\ pc = "done" /\ response # None
    /\ Len(response.points) = 5
    /\ Len(Checkpoints) = 3

\* C8: when the weather call succeeds and a sample is returned, its
\* forecast_type is "current" exactly when target_time <= now and "forecast"
\* exactly when target_time > now, whatever the response contains.
C8_ForecastTypeFollowsSelection ==
    (pc = "wx_done" /\ wx.out.query # None /\ ~IsExc(wx.out.result)) =>
      /\ (wx.out.result.forecast_type = "current") <=> (wx.target_time_str.secs <= now)
      /\ (wx.out.result.forecast_type = "forecast") <=> (wx.target_time_str.secs > now)

\* C9: when geocoding finds nothing (geocode_location raises its 404),
\* calculate_route fails with that 404, not with the generic 400, and calls
\* no service but geocoding.
C9_GeocodeNotFoundSurfaces ==
    (pc = "done" /\ raised # None
       /\ Cause.exc = "HTTPException" /\ Cause.status_code = 404) =>
      /\ raised.status_code = 404
      /\ \A k \in 1..Len(calls) : calls[k].svc = "geocode"

\* C10: get_weather_forecast issues the current-conditions query exactly when
\* target_time <= now, and otherwise the forecast query with
\* days = min(10, max(1, whole days between now and target_time + 1)).
C10_QuerySelection ==
    (pc = "wx_done" /\ wx.target_time_str.tz # "bad") =>
      LET t == wx.target_time_str.secs
      IN IF t <= now
         THEN wx.out.query = [url |-> "current.json"]
         ELSE /\ wx.out.query
                   = [url |-> "forecast.json",
                      days |-> Min(10, Max(1, ((t - now) \div 86400) + 1))]
              /\ wx.out.query.days \in 1..10
              /\ t = now + 2 * 86400 => wx.out.query.days = 3
              /\ t = now + 15 * 86400 => wx.out.query.days = 10

\* The statement of C10 for a target_time string without zone or offset.
C10_QuerySelectionNaive ==
    wx # None /\ wx.target_time_str.tz = "" => C10_QuerySelection

\* C11: every timeline point's estimated_time is start_time plus
\* floor(progress * total_duration) seconds: progress 0 at the start, i/(n+1)
\* at the i-th of the n checkpoints, 1 at the destination; a 7200 s route over
\* a 100-vertex geometry gives 4 points, at +0, +2400, +4800 and +7200 s.
C11_EstimatedTimes ==
    pc = "timeline_done" =>
      LET len == Len(timeline_points)
          n == len - 2
          t0 == request.start_time.secs
          dur == route_data.total_duration
          at(k) == timeline_points[k].estimated_time
      IN /\ at(1) = [secs |-> t0, tz |-> ""]
         /\ \A i \in 1..n :
               at(i + 1) = [secs |-> t0 + ((i * dur) \div (n + 1)), tz |-> ""]
         /\ at(len) = [secs |-> t0 + dur, tz |-> ""]
         /\ (dur = 7200 /\ Len(route_data.route_points) = 100) =>
               /\ len = 4
               /\ at(2).secs = t0 + 2400
               /\ at(3).secs = t0 + 4800
               /\ at(4).secs = t0 + 7200

\* C11 witness: the timeline of a 7200 s route over a 100-vertex geometry,
\* with its two checkpoints a third and two thirds of the way in time.
C11_Witness ==
    /\ pc = "timeline_done"
    /\ route_data.total_duration = 7200
    /\ Len(route_data.route_points) = 100
    /\ Len(timeline_points) = 4
    /\ timeline_points[2].point_type = "checkpoint"
    /\ timeline_points[2].estimated_time.secs = request.start_time.secs + 2400
    /\ timeline_points[3].estimated_time.secs = request.start_time.secs + 4800
    /\ timeline_points[4].estimated_time.secs = request.start_time.secs + 7200

\* C12: when the traffic-flow call succeeds, the answer's speeds (a missing
\* currentSpeed read as 0, a missing freeFlowSpeed as the current speed) are
\* classified by current_speed / free_flow_speed: free flow <= 0 is
\* Unknown/gray, a ratio >= 0.8 Good/green, 0.5 <= ratio < 0.8 Moderate/yellow,
\* ratio < 0.5 Congested/red, and no other pair occurs (90/100 is Good,
\* 60/100 Moderate, 30/100 Congested, a free flow of 0 Unknown).
C12_RatioClassification ==
    (pc = "tf_done" /\ tf.resp.http = "ok") =>
      LET flow == IF "flowSegmentData" \in DOMAIN tf.resp.json
                  THEN tf.resp.json.flowSegmentData ELSE <<>>
          cs == IF "currentSpeed" \in DOMAIN flow THEN flow.currentSpeed ELSE 0
          ffs == IF "freeFlowSpeed" \in DOMAIN flow THEN flow.freeFlowSpeed ELSE cs
          pair == <<tf.out.condition, tf.out.color>>
      IN /\ tf.out.current_speed = cs
         /\ tf.out.free_flow_speed = ffs
         /\ pair \in {<<"Unknown", "gray">>, <<"Good", "green">>,
                      <<"Moderate", "yellow">>, <<"Congested", "red">>}
         /\ ffs <= 0 => pair = <<"Unknown", "gray">>
         /\ (ffs > 0 /\ 10 * cs >= 8 * ffs) => pair = <<"Good", "green">>
         /\ (ffs > 0 /\ 10 * cs < 8 * ffs /\ 10 * cs >= 5 * ffs) =>
               pair = <<"Moderate", "yellow">>
         /\ (ffs > 0 /\ 10 * cs < 5 * ffs) => pair = <<"Congested", "red">>
         /\ (cs = 90 /\ ffs = 100) => pair = <<"Good", "green">>
         /\ (cs = 60 /\ ffs = 100) => pair = <<"Moderate", "yellow">>
         /\ (cs = 30 /\ ffs = 100) => pair = <<"Congested", "red">>

\* C12 witness: a successful answer exactly on the 0.8 boundary (8 of 10 km/h)
\* has been classified Good/green.
C12_Witness ==
    /\ pc = "tf_done"
    /\ tf.resp = FlowOf(8, 10)
    /\ tf.out.current_speed = 8
    /\ tf.out.free_flow_speed = 10
    /\ tf.out.condition = "Good"
    /\ tf.out.color = "green"

\* C13: for a successful forecast answer, the sample is the entry of the first
\* forecast day's hour list whose hour of day is nearest target_time's hour by
\* plain absolute difference, the first such entry in the list's order when
\* several are equally near; when the first day has no hour list, the sample
\* is the day's aggregate.
C13_ClosestHourSelection ==
    (/\ pc = "wx_done"
     /\ wx.out.query # None
     /\ wx.out.query.url = "forecast.json"
     /\ wx.api.forecast.http = "ok"
     /\ "forecast" \in DOMAIN wx.api.forecast.json
     /\ wx.api.forecast.json.forecast.forecastday # <<>>) =>
      LET first_day == wx.api.forecast.json.forecast.forecastday[1]
          target_hour == (wx.target_time_str.secs \div 3600) % 24
          got == wx.out.result
          Diff(h) == IF h >= target_hour THEN h - target_hour ELSE target_hour - h
      IN IF "hour" \notin DOMAIN first_day
         THEN /\ ~IsExc(got)
              /\ got.temperature = first_day.day.avgtemp_c
              /\ got.condition = first_day.day.condition.text
              /\ got.humidity = first_day.day.avghumidity
         ELSE first_day.hour # <<>> =>
              \E k \in 1..Len(first_day.hour) :
                 /\ \A j \in 1..Len(first_day.hour) :
                       Diff(first_day.hour[k].time.hour)
                           <= Diff(first_day.hour[j].time.hour)
                 /\ \A j \in 1..(k - 1) :
                       Diff(first_day.hour[j].time.hour)
                           > Diff(first_day.hour[k].time.hour)
                 /\ ~IsExc(got)
                 /\ got.temperature = first_day.hour[k].temp_c
                 /\ got.condition = first_day.hour[k].condition.text
                 /\ got.humidity = first_day.hour[k].humidity

\* The statement of C13 for a forecast answer that holds no "current" key.
C13_ClosestHourWithoutCurrent ==
    \/ wx = None
    \/ wx.api.forecast.http = "ok" /\ "current" \in DOMAIN wx.api.forecast.json
    \/ C13_ClosestHourSelection

\* The tie the statement of C13 speaks of, as it is resolved for an answer
\* without "current": at target hour 9 the list 18, 12, 6, 0 has 12 and 6
\* equally near, and the sample is the entry for 12, second in the list.
C13_TieTakesFirst ==
    /\ pc = "wx_done"
    /\ wx.api.forecast = WxForecastHourly(<<18, 12, 6, 0>>)
    /\ wx.out.query # None
    /\ wx.out.query.url = "forecast.json"
    /\ (wx.target_time_str.secs \div 3600) % 24 = 9
    /\ wx.out.result.temperature = HourTag(2, 12)

====
